---- MODULE Spec2Model ----
(***************************************************************************)
(* Model of assets/product-form.js: the ProductFormComponent custom        *)
(* element (submission, error / success messaging with timers, variant     *)
(* synchronisation, cart quantity refetch, signal subscription) and the    *)
(* AddToCartComponent custom element (the timed 'atc-added' class).        *)
(*                                                                         *)
(* Time is counted in milliseconds: every timer holds the time left until  *)
(* it is due, Tick lets one second pass, Wait lets time pass until the     *)
(* next timer is due, and a due timer blocks both until its callback has   *)
(* run.  Handlers run to completion (one action each); the suspension      *)
(* points are the cart-add POST and the cart GET, whose requests stay in   *)
(* `posts` and `gets` until they are answered.  morph() and the markup it  *)
(* patches are outside the model: it leaves the modelled attributes alone. *)
(***************************************************************************)
EXTENDS Integers, Sequences, FiniteSets

\* ---------------------------------------------------------------- bounds
MaxEvents == 3         \* external stimuli (submits, signals) per behaviour
MaxQuantity == 2       \* largest quantity a user enters
CartCap == 2           \* largest per-variant quantity the server cart holds
MaxComponents == 2     \* most cart-items components on a page

\* ------------------------------------------------------ program constants
ADD_TO_CART_TEXT_ANIMATION_DURATION == 2000
DURATION == 600                     \* `duration` of FlyToCart.#animate
FrameUnit == 100                    \* frame timestamps are multiples of it
CLEANUP_DELAY == 10                 \* the delay of the inner setTimeout
ERROR_MESSAGE_DISPLAY_DURATION == 10000
ERROR_BUTTON_REENABLE_DELAY == 1000
SUCCESS_MESSAGE_DISPLAY_DURATION == 5000
TimeStep == ERROR_BUTTON_REENABLE_DELAY  \* the step of Tick: one second

\* ------------------------------------------------------------ value sets
Variants == {"v1", "v2"}
NoVariant == ""                     \* variantId.value = '' (resource absent)
Products == {"p1", "p2"}
Quantities == 0..MaxQuantity
Missing == -1                       \* formData.get('quantity') === null
NoMax == 0                          \* the quantity input has no max (null)
Maxima == {NoMax, 1}
Placeholder == "{{ maximum }}"
Template == <<"Maximum ", Placeholder, " per order">>   \* dataset.quantityErrorMax
Messages == {<<"Sold out">>}        \* response.message of an error response
AddedText == <<"Added">>            \* Theme.translations.added
NoText == <<>>                      \* textContent = ''
NoTextNode == <<"#none">>           \* childNodes[2] does not exist yet
NoTimer == 0                        \* this.#timeout is undefined
ThisSource == "product-form-component"
NoSections == ""                    \* the signal carries no sections
SectionIds == {"s1", "s2"}          \* dataset.sectionId of a cart-items component
NoSectionId == ""                   \* a cart-items component without one
Comma == ","
NoClick == -1                       \* the button has not been clicked yet

VARIABLES
  refs,            \* which optional DOM refs / widgets the page has
  dataset,         \* quantityErrorMax, quantityDefault, productId
  cartItems,       \* section ids of the cart-items components of the page
  variantId,       \* refs.variantId.value (the hidden input name="id")
  btnDisabled,     \* addToCartButton.disabled
  accelHidden,     \* acceleratedCheckoutButtonContainer has [hidden]
  errHidden,       \* addToCartTextError has class 'hidden'
  errText,         \* text of addToCartTextError.childNodes[2]
  liveText,        \* refs.liveRegion.textContent
  timeout,         \* this.#timeout: id of the last tracked timer
  timers,          \* pending setTimeout callbacks: [id, kind, rem]
  nextId,          \* next timer id
  posts,           \* cart-add POSTs in flight (sequence of form data)
  gets,            \* cart GETs in flight (sequence of server snapshots)
  serverCart,      \* the server cart: variant -> quantity
  qtyMax,          \* quantity widget: max constraint
  cartQty,         \* quantity widget: value given to setCartQuantity
  labelQty,        \* quantityLabelCartCount: the number in "(N in cart)"
  labelHidden,     \* quantityLabelCartCount has class 'hidden'
  errAge,          \* time since the error element was last shown
  errShown,        \* id of the timer scheduled with the error now on screen
  liveAge,         \* time since the live region text was last set
  last,            \* the handler that ran last, with its inputs
  out,             \* requests issued and signals dispatched by that handler
  events,          \* external stimuli so far
  connected,       \* the ProductForm element is in the document
  aborted,         \* this.#abortController.signal.aborted
  listening,       \* the three signal listeners are attached
  selecting,       \* variant-selected handled, no variant-update since
  reported,        \* what the last handled variant-update said of the variant
  atcConnected,    \* the AddToCart element is in the document
  atcAdded,        \* addToCartButton has class 'atc-added'
  animationTimeout, \* AddToCart #animationTimeout: a timer id
  cleanupTimeout,  \* AddToCart #cleanupTimeout: a timer id
  flyers,          \* fly-to-cart elements appended to the body so far
  atcAge,          \* time since the last click that passed validation
  atcInterrupted,  \* AddToCart was disconnected after that click
  fly              \* one fly-to-cart element: its flight and its style

vars == <<refs, dataset, cartItems, variantId, btnDisabled, accelHidden, errHidden,
          errText, liveText, timeout, timers, nextId, posts, gets,
          serverCart, qtyMax, cartQty, labelQty, labelHidden, errAge,
          errShown, liveAge, last, out, events, connected, aborted,
          listening, selecting, reported, atcConnected, atcAdded,
          animationTimeout, cleanupTimeout, flyers, atcAge, atcInterrupted,
          fly>>

domVars == <<btnDisabled, accelHidden, errHidden, errText, liveText>>
cartVars == <<gets, serverCart, cartQty, labelQty, labelHidden>>
cfgVars == <<refs, dataset, cartItems>>
lifeVars == <<connected, aborted, listening>>
trackVars == <<selecting, reported>>
atcVars == <<atcConnected, atcAdded, animationTimeout, cleanupTimeout, flyers,
             atcAge, atcInterrupted, fly>>

\* ---------------------------------------------------------------- helpers
\* Number.prototype.toString on the small numbers of the model
NumberToString(n) == IF n = 0 THEN "0" ELSE IF n = 1 THEN "1"
                     ELSE IF n = 2 THEN "2" ELSE IF n = 3 THEN "3" ELSE "4"

\* String.prototype.replace with a string pattern: the first occurrence only
RECURSIVE ReplaceFirst(_, _, _)
ReplaceFirst(s, pat, by) ==
  IF s = <<>> THEN <<>>
  ELSE IF Head(s) = pat THEN <<by>> \o Tail(s)
  ELSE <<Head(s)>> \o ReplaceFirst(Tail(s), pat, by)

\* a bug: the template is shown as it is
ErrorMessageUnsubstituted(template, maxQuantity) == template

\* errorTemplate.replace('{{ maximum }}', validation.maxQuantity.toString())
ErrorMessage(template, maxQuantity) ==
  ReplaceFirst(template, Placeholder, NumberToString(maxQuantity))

\* quantity widget, canAddToCart(): the requested quantity against the maximum
CanAddToCart(q, max) ==
  [canAdd |-> (max = NoMax) \/ (q <= max), maxQuantity |-> max]

\* a bug: no fallback to the default quantity
ItemCountWithoutDefault(quantity, quantityDefault) ==
  IF quantity = Missing THEN 0 ELSE quantity

\* Number(formData.get('quantity')) || Number(this.dataset.quantityDefault)
ItemCount(quantity, quantityDefault) ==
  IF quantity = Missing \/ quantity = 0 THEN quantityDefault ELSE quantity

\* clearTimeout(id): a pending timer with that id is dropped
ClearTimeout(ts, id) == {t \in ts : t.id # id}

\* setTimeout(callback, delay)
SetTimeout(ts, id, kind, delay) ==
  ts \cup {[id |-> id, kind |-> kind, rem |-> delay]}

Remove(seq, i) == [j \in 1..(Len(seq) - 1) |-> IF j < i THEN seq[j] ELSE seq[j + 1]]

Quiet == [op |-> "none"]

\* ------------------------------------------------------------------- Init
\* the whole flight of a fly-to-cart element, in frame units
Whole == DURATION \div FrameUnit
Cube(n) == n * n * n

\* no fly-to-cart element is followed
NoFly == [phase |-> "none", startPoint |-> [x |-> 0, y |-> 0],
          endPoint |-> [x |-> 0, y |-> 0], startTime |-> 0, now |-> 0,
          progress |-> 0, position |-> [x |-> 0, y |-> 0],
          scale |-> 2 * Whole, opacity |-> 1]

\* the pages with no more than MaxComponents cart-items components
Pages ==
  UNION {[1..n -> SectionIds \cup {NoSectionId}] : n \in 0..MaxComponents}

\* the page with the cart drawer as its one cart-items component
DrawerOnly == {<<"s1">>}

\* the page after construction, for a set of DOM configurations and a set of
\* cart-items layouts
StartOn(configurations, pages) ==
  /\ refs \in configurations
  /\ cartItems \in pages
  /\ dataset = [quantityErrorMax |-> Template, quantityDefault |-> 1,
                productId |-> "p1"]
  /\ variantId = "v1"
  /\ btnDisabled = FALSE
  /\ accelHidden = FALSE
  /\ errHidden = TRUE
  /\ errText = NoTextNode
  /\ liveText = NoText
  /\ timeout = NoTimer
  /\ timers = {}
  /\ nextId = 1
  /\ posts = <<>>
  /\ gets = <<>>
  /\ serverCart = [v \in Variants |-> 0]
  /\ qtyMax \in (IF refs.qty THEN Maxima ELSE {NoMax})
  /\ cartQty = 0
  /\ labelQty = 0
  /\ labelHidden = TRUE
  /\ errAge = 0
  /\ errShown = 0
  /\ liveAge = 0
  /\ last = Quiet
  /\ out = <<>>
  /\ events = 0
  /\ connected = TRUE
  /\ aborted = FALSE
  /\ listening = TRUE
  /\ selecting = FALSE
  /\ reported = "nothing"
  /\ atcConnected = TRUE
  /\ atcAdded = FALSE
  /\ animationTimeout = NoTimer
  /\ cleanupTimeout = NoTimer
  /\ flyers = 0
  /\ atcAge = NoClick
  /\ atcInterrupted = FALSE
  /\ fly = NoFly

Start(configurations) == StartOn(configurations, DrawerOnly)

\* the complete page: every optional ref of ProductFormRefs is there
Init == Start([err : {TRUE}, btn : {TRUE}, accel : {TRUE}, qty : {TRUE},
               label : {TRUE}])

\* every combination of the optional refs that the submit path reads
InitSubmit == Start([err : BOOLEAN, btn : BOOLEAN, accel : {TRUE},
                     qty : BOOLEAN, label : {TRUE}])

\* every combination of the optional refs that #onVariantUpdate reads
InitVariant == Start([err : {TRUE}, btn : BOOLEAN, accel : BOOLEAN,
                      qty : BOOLEAN, label : {TRUE}])

\* ------------------------------------------------- ProductForm.handleSubmit
\* lines 251-281: the quantity widget rejected the requested quantity
SubmitRejected(q, cleared, validation) ==
  LET errorMessage == ErrorMessage(dataset.quantityErrorMax, validation.maxQuantity)
      hideId == nextId
      enableId == IF refs.err THEN nextId + 1 ELSE nextId
      shown == IF refs.err
               THEN SetTimeout(ClearTimeout(cleared, timeout), hideId, "hide",
                               ERROR_MESSAGE_DISPLAY_DURATION)
               ELSE cleared
  IN /\ btnDisabled' = IF refs.btn THEN TRUE ELSE btnDisabled
     /\ IF refs.err
        THEN /\ errHidden' = FALSE
             /\ errText' = errorMessage
             /\ liveText' = errorMessage
             /\ timeout' = hideId
             /\ errAge' = 0
             /\ errShown' = hideId
             /\ liveAge' = 0
        ELSE UNCHANGED <<errHidden, errText, liveText, timeout, errAge,
                         errShown, liveAge>>
     /\ timers' = SetTimeout(shown, enableId, "enable", ERROR_BUTTON_REENABLE_DELAY)
     /\ nextId' = enableId + 1
     /\ out' = <<>>
     /\ UNCHANGED <<posts, accelHidden>>

\* Array.prototype.join(',')
RECURSIVE Join(_)
Join(ids) ==
  IF ids = <<>> THEN <<>>
  ELSE IF Len(ids) = 1 THEN ids
  ELSE <<Head(ids), Comma>> \o Join(Tail(ids))

\* lines 287-294: the forEach over the cart-items components, `ids` being
\* the section ids pushed so far; each iteration appends a `sections` entry
RECURSIVE AppendSections(_, _)
AppendSections(items, ids) ==
  IF items = <<>> THEN <<>>
  ELSE LET pushed == IF Head(items) # NoSectionId
                     THEN Append(ids, Head(items)) ELSE ids
       IN <<Join(pushed)>> \o AppendSections(Tail(items), pushed)

\* lines 285-304: the form data is serialised and the cart-add POST is sent
SubmitPost(q, cleared) ==
  LET formData == [id |-> variantId,
                   quantity |-> IF refs.qty THEN q ELSE Missing,
                   sections |-> AppendSections(cartItems, <<>>)]
  IN /\ posts' = Append(posts, formData)
     /\ timers' = cleared
     /\ out' = <<[type |-> "POST", body |-> formData]>>
     /\ UNCHANGED <<domVars, timeout, nextId, errAge, errShown, liveAge>>

handleSubmit(q) ==
  LET cleared == ClearTimeout(timers, timeout)            \* line 237
      validation == CanAddToCart(q, qtyMax)
      disabled == refs.btn /\ btnDisabled                 \* line 240
      rejected == refs.qty /\ ~validation.canAdd          \* lines 248-251
  IN /\ events < MaxEvents
     /\ events' = events + 1
     /\ last' = [op |-> "handleSubmit", disabled |-> disabled,
                 validated |-> ~disabled /\ refs.qty,
                 canAdd |-> validation.canAdd,
                 maxQuantity |-> validation.maxQuantity]
     /\ IF disabled
        THEN /\ timers' = cleared
             /\ out' = <<>>
             /\ UNCHANGED <<domVars, timeout, nextId, posts, errAge, errShown,
                            liveAge>>
        ELSE IF rejected
        THEN SubmitRejected(q, cleared, validation)
        ELSE SubmitPost(q, cleared)
     /\ UNCHANGED <<cfgVars, variantId, cartVars, qtyMax, lifeVars, trackVars,
                    atcVars>>

Submit == \E q \in Quantities : handleSubmit(q)

\* ----------------------------------- the cart-add endpoint answers a POST
\* lines 307-346: the response carries a truthy status
ResponseError(formData, response) ==
  LET errorEvent == [type |-> "CartErrorEvent", message |-> response.message]
      addEvent == [type |-> "CartAddEvent", didError |-> TRUE,
                   sourceId |-> "this", source |-> ThisSource,
                   itemCount |-> ItemCount(formData.quantity, dataset.quantityDefault),
                   productId |-> dataset.productId, sections |-> NoSections]
  IN IF ~refs.err
     THEN /\ out' = <<errorEvent>>                       \* line 312
          /\ UNCHANGED <<domVars, timeout, timers, nextId, gets, errAge,
                         errShown, liveAge>>
     ELSE /\ errHidden' = FALSE
          /\ errText' = response.message
          /\ liveText' = response.message
          /\ timeout' = nextId
          /\ timers' = SetTimeout(timers, nextId, "hide",
                                  ERROR_MESSAGE_DISPLAY_DURATION)
          /\ nextId' = nextId + 1
          /\ errAge' = 0
          /\ errShown' = nextId
          /\ liveAge' = 0
          /\ out' = <<errorEvent, addEvent>>
          /\ UNCHANGED <<btnDisabled, accelHidden, gets>>

\* lines 186-192: #fetchAndUpdateCartQuantity up to its first await
FetchCartRequests(id) == IF id = NoVariant THEN <<>> ELSE <<[type |-> "GET"]>>

Unanswered == [answered |-> FALSE, items |-> [v \in Variants |-> 0]]

FetchCart(requests) == IF requests = <<>> THEN gets ELSE Append(gets, Unanswered)

\* a bug: the error of an earlier attempt stays on screen
ErrorKeptOnSuccess == errHidden

\* lines 350-353: the error element is hidden
ErrorHiddenOnSuccess == IF refs.err THEN TRUE ELSE errHidden

\* lines 347-381: the response carries no status
ResponseSuccess(formData, response) ==
  LET announced == refs.btn                               \* line 358
      requests == FetchCartRequests(variantId)                  \* line 371
      addEvent == [type |-> "CartAddEvent", didError |-> FALSE,
                   sourceId |-> formData.id, source |-> ThisSource,
                   itemCount |-> ItemCount(formData.quantity, dataset.quantityDefault),
                   productId |-> dataset.productId,
                   sections |-> response.sections]
  IN /\ errHidden' = ErrorHiddenOnSuccess
     /\ errAge' = IF ErrorHiddenOnSuccess THEN 0 ELSE errAge
     /\ IF formData.id = NoVariant
        THEN /\ out' = <<>>                               \* line 355 throws
             /\ UNCHANGED <<liveText, liveAge, timers, nextId, gets>>
        ELSE /\ liveText' = IF announced THEN AddedText ELSE liveText
             /\ liveAge' = IF announced THEN 0 ELSE liveAge
             /\ timers' = IF announced
                          THEN SetTimeout(timers, nextId, "clear",
                                          SUCCESS_MESSAGE_DISPLAY_DURATION)
                          ELSE timers
             /\ nextId' = IF announced THEN nextId + 1 ELSE nextId
             /\ gets' = FetchCart(requests)
             /\ out' = requests \o <<addEvent>>
     /\ UNCHANGED <<btnDisabled, accelHidden, errText, timeout, errShown>>

\* what the server does with the form data, and what it answers
ServerAnswers(formData) ==
  LET asked == IF formData.quantity = Missing THEN 1 ELSE formData.quantity
      ok == IF formData.id \in Variants /\ serverCart[formData.id] + asked <= CartCap
            THEN {[response |-> [status |-> 0, sections |-> "sections"],
                   cart |-> [serverCart EXCEPT ![formData.id] = @ + asked]]}
            ELSE {}
      refused == {[response |-> [status |-> 422, message |-> m],
                   cart |-> serverCart] : m \in Messages}
      \* the back end refuses the request and still adds what it allows
      partly == IF formData.id \in Variants /\ serverCart[formData.id] < CartCap
                THEN {[response |-> [status |-> 422, message |-> m],
                       cart |-> [serverCart EXCEPT ![formData.id] = @ + 1]]
                      : m \in Messages}
                ELSE {}
  IN ok \cup refused \cup partly

CartAddResponse ==
  \E i \in 1..Len(posts) : \E answer \in ServerAnswers(posts[i]) :
    /\ posts' = Remove(posts, i)
    /\ serverCart' = answer.cart
    /\ last' = [op |-> "cartAddResponse", formData |-> posts[i],
                response |-> answer.response, errHidden |-> errHidden]
    /\ IF answer.response.status # 0                       \* line 307
       THEN ResponseError(posts[i], answer.response)
       ELSE ResponseSuccess(posts[i], answer.response)
    /\ UNCHANGED <<cfgVars, variantId, qtyMax, cartQty, labelQty, labelHidden,
                   events, lifeVars, trackVars, atcVars>>

\* lines 383-385: fetch or response.json() rejects; the error is logged
CartAddFailure ==
  \E i \in 1..Len(posts) :
    /\ posts' = Remove(posts, i)
    /\ last' = [op |-> "cartAddFailure", formData |-> posts[i]]
    /\ out' = <<>>
    /\ UNCHANGED <<cfgVars, variantId, domVars, timeout, timers, nextId,
                   cartVars, qtyMax, errAge, errShown, liveAge, events,
                   lifeVars, trackVars, atcVars>>

\* ------------------------------------------------------------------ timers
AgeCap == ERROR_MESSAGE_DISPLAY_DURATION + TimeStep    \* ages stop here
AtcAgeCap == ADD_TO_CART_TEXT_ANIMATION_DURATION + TimeStep

\* the timers of the ProductForm and those of the AddToCart button
FormKinds == {"hide", "enable", "clear"}
AtcKinds == {"animation", "cleanup"}

Due == {t \in timers : t.rem = 0}

\* d milliseconds pass, none of the pending timers being overdue at the end
Elapse(d) ==
  /\ \A t \in timers : t.rem >= d
  /\ timers' = {[t EXCEPT !.rem = @ - d] : t \in timers}
  /\ errAge' = IF errHidden THEN errAge
               ELSE IF errAge + d > AgeCap THEN AgeCap ELSE errAge + d
  /\ liveAge' = IF liveText = NoText THEN liveAge
                ELSE IF liveAge + d > AgeCap THEN AgeCap ELSE liveAge + d
  /\ atcAge' = IF atcAge = NoClick THEN NoClick
               ELSE IF atcAge + d > AtcAgeCap THEN AtcAgeCap ELSE atcAge + d
  /\ last' = [op |-> "elapse"]
  /\ out' = <<>>
  /\ UNCHANGED <<cfgVars, variantId, domVars, timeout, nextId, posts, cartVars,
                 qtyMax, errShown, events, lifeVars, trackVars, atcConnected,
                 atcAdded, animationTimeout, cleanupTimeout, flyers,
                 atcInterrupted, fly>>

\* one second passes
Tick ==
  /\ Due = {}
  /\ \/ timers # {}
     \/ ~errHidden /\ errAge < AgeCap
     \/ liveText # NoText /\ liveAge < AgeCap
  /\ Elapse(TimeStep)

\* time passes until the next timer is due
Wait ==
  /\ Due = {}
  /\ \E t \in timers : Elapse(t.rem)

\* lines 270-274 and 327-333: the error-hide callback
HideError(t) ==
  /\ errHidden' = TRUE
  /\ liveText' = NoText
  /\ errAge' = 0
  /\ liveAge' = 0
  /\ UNCHANGED <<btnDisabled, accelHidden, errText>>

\* a bug: the callback leaves the control as it is
EnableButtonSkipped(t) ==
  UNCHANGED <<btnDisabled, accelHidden, errHidden, errText, liveText, errAge,
              liveAge>>

\* lines 277-279: the re-enable callback
EnableButton(t) ==
  /\ btnDisabled' = IF refs.btn THEN FALSE ELSE btnDisabled
  /\ UNCHANGED <<accelHidden, errHidden, errText, liveText, errAge, liveAge>>

\* lines 365-367: the success announcement is cleared
ClearAnnouncement(t) ==
  /\ liveText' = NoText
  /\ liveAge' = 0
  /\ UNCHANGED <<btnDisabled, accelHidden, errHidden, errText, errAge>>

TimerFires ==
  \E t \in Due :
    /\ t.kind \in FormKinds
    /\ timers' = timers \ {t}
    /\ last' = [op |-> "timer", timer |-> t, errHidden |-> errHidden,
                errShown |-> errShown]
    /\ out' = <<>>
    /\ CASE t.kind = "hide" -> HideError(t)
         [] t.kind = "enable" -> EnableButton(t)
         [] t.kind = "clear" -> ClearAnnouncement(t)
    /\ UNCHANGED <<cfgVars, variantId, timeout, nextId, posts, cartVars, qtyMax,
                   errShown, events, lifeVars, trackVars, atcVars>>

\* ------------------------------------------------------------ cart refetch
\* the cart endpoint reads the cart for a GET that has reached it
CartGetAnswer ==
  \E i \in 1..Len(gets) :
    /\ ~gets[i].answered
    /\ gets' = [gets EXCEPT ![i] = [answered |-> TRUE, items |-> serverCart]]
    /\ last' = [op |-> "cartGetAnswer"]
    /\ out' = <<>>
    /\ UNCHANGED <<cfgVars, variantId, domVars, timeout, timers, nextId, posts,
                   serverCart, qtyMax, cartQty, labelQty, labelHidden, errAge,
                   errShown, liveAge, events, lifeVars, trackVars, atcVars>>

\* lines 194-198: the quantity of the line whose variant_id is the input's value
CartItemQuantity(items, id) == IF id \in Variants THEN items[id] ELSE 0

\* lines 395-406: #updateQuantityLabel, the label text being "(N in cart)"
UpdateQuantityLabel(qty) ==
  /\ labelQty' = IF refs.label THEN qty ELSE labelQty
  /\ labelHidden' = IF refs.label THEN (qty = 0) ELSE labelHidden

\* lines 192-209: #fetchAndUpdateCartQuantity after its awaits
CartGetResponse ==
  \E i \in 1..Len(gets) :
    LET qty == CartItemQuantity(gets[i].items, variantId)
    IN /\ gets[i].answered
       /\ gets' = Remove(gets, i)
       /\ cartQty' = IF refs.qty THEN qty ELSE cartQty     \* setCartQuantity
       /\ UpdateQuantityLabel(qty)
       /\ last' = [op |-> "cartGetResponse", items |-> gets[i].items,
                   result |-> qty]
       /\ out' = <<>>
       /\ UNCHANGED <<cfgVars, variantId, domVars, timeout, timers, nextId,
                      posts, serverCart, qtyMax, errAge, errShown, liveAge,
                      events, lifeVars, trackVars, atcVars>>

\* a bug: a failed refetch is taken for an empty cart
ShownAsEmpty(quantity) == 0

\* lines 210-213: the catch block writes nothing to the quantity display
ShownAfterFailure(quantity) == quantity

\* lines 210-213: fetch or response.json() rejects; the error is logged
CartGetFailure ==
  \E i \in 1..Len(gets) :
    /\ gets' = Remove(gets, i)
    /\ cartQty' = ShownAfterFailure(cartQty)
    /\ labelQty' = ShownAfterFailure(labelQty)
    /\ last' = [op |-> "cartGetFailure", result |-> 0]     \* line 212
    /\ out' = <<>>
    /\ UNCHANGED <<cfgVars, variantId, domVars, timeout, timers, nextId, posts,
                   serverCart, qtyMax, labelHidden, errAge, errShown, liveAge,
                   events, lifeVars, trackVars, atcVars>>

\* a signal is dispatched while no listener of the component is attached
Unheard(type) ==
  /\ last' = [op |-> "unheard", type |-> type]
  /\ out' = <<>>
  /\ UNCHANGED <<cfgVars, variantId, domVars, timeout, timers, nextId, posts,
                 gets, qtyMax, cartQty, labelQty, labelHidden, errAge,
                 errShown, liveAge>>

\* a bug: only the sourceId is compared
OwnBySourceId(event) == event.sourceId = "this"

\* line 222: the signal was sent by this component or by a product form
OwnSignal(event) == event.sourceId = "this" \/ event.source = ThisSource

\* lines 220-225: #onCartUpdate
onCartUpdate(event) ==
  LET own == OwnSignal(event)
      requests == IF own THEN <<>> ELSE FetchCartRequests(variantId)
  IN /\ gets' = FetchCart(requests)
     /\ out' = requests
     /\ last' = [op |-> "onCartUpdate", event |-> event]

CartUpdateEvents == [sourceId : {"this", "other"},
                     source : {ThisSource, "cart-items-component"}]

\* a cart-update signal reaches the document; when another component sent
\* it, that component has changed one line of the cart
CartUpdate ==
  \E event \in CartUpdateEvents : \E v \in Variants : \E n \in 0..CartCap :
    /\ events < MaxEvents
    /\ events' = events + 1
    /\ event.sourceId = "this" => n = serverCart[v]
    /\ serverCart' = [serverCart EXCEPT ![v] = n]
    /\ IF listening
       THEN /\ onCartUpdate(event)
            /\ UNCHANGED <<cfgVars, variantId, domVars, timeout, timers,
                           nextId, posts, qtyMax, cartQty, labelQty,
                           labelHidden, errAge, errShown, liveAge>>
       ELSE Unheard("cart:update")
    /\ UNCHANGED <<lifeVars, trackVars, atcVars>>

\* ---------------------------------------------------------- variant signals
NoProduct == ""
NoInput == -1          \* the new markup has no quantity input

Resources == {[present |-> FALSE, id |-> NoVariant, available |-> FALSE]}
             \cup [present : {TRUE}, id : Variants, available : BOOLEAN]

VariantUpdateEvents == [newProduct : {NoProduct, "p2"}, productId : Products,
                        resource : Resources, max : Maxima \cup {NoInput}]

\* a bug: only an absent variant counts
OnlyAbsent(resource) == ~resource.present

\* lines 459 and 472: resource == null || resource.available == false
NotAvailable(resource) == ~resource.present \/ ~resource.available

\* a bug: every variant-update is taken for one of this product
NeverForeign(event) == FALSE

\* lines 441-445: the signal is about another product
Foreign(event) ==
  event.newProduct = NoProduct /\ event.productId # dataset.productId

\* lines 440-544: #onVariantUpdate
onVariantUpdate(event) ==
  LET foreign == Foreign(event)
      id == event.resource.id                                    \* line 453
      bare == ~refs.btn /\ ~refs.accel                           \* line 455
      unavailable == NotAvailable(event.resource)
      requests == IF foreign \/ bare THEN <<>> ELSE FetchCartRequests(id)
  IN /\ last' = [op |-> "onVariantUpdate", resource |-> event.resource,
                 foreign |-> foreign, btnDisabled |-> btnDisabled,
                 newProduct |-> event.newProduct,
                 productId |-> event.productId]
     /\ dataset' = IF event.newProduct # NoProduct
                   THEN [dataset EXCEPT !.productId = event.newProduct]
                   ELSE dataset
     /\ variantId' = IF foreign THEN variantId ELSE id
     /\ btnDisabled' = IF ~foreign /\ refs.btn THEN unavailable ELSE btnDisabled
     /\ accelHidden' = IF ~foreign /\ refs.accel THEN unavailable ELSE accelHidden
     /\ qtyMax' = IF ~foreign /\ ~bare /\ refs.qty /\ event.max # NoInput
                  THEN event.max ELSE qtyMax                     \* line 492
     /\ gets' = FetchCart(requests)                              \* line 543
     /\ out' = requests
     /\ UNCHANGED <<refs, cartItems, errHidden, errText, liveText, timeout, timers, nextId,
                    posts, serverCart, cartQty, labelQty, labelHidden, errAge,
                    errShown, liveAge>>

VariantUpdate ==
  \E event \in VariantUpdateEvents :
    LET handled == listening /\ ~Foreign(event)
    IN /\ events < MaxEvents
       /\ events' = events + 1
       /\ IF listening
          THEN onVariantUpdate(event)
          ELSE Unheard("variant:update") /\ UNCHANGED serverCart
       /\ selecting' = IF handled THEN FALSE ELSE selecting
       /\ reported' = IF ~handled THEN reported
                      ELSE IF NotAvailable(event.resource) THEN "unavailable"
                      ELSE "available"
       /\ UNCHANGED <<lifeVars, atcVars>>

\* lines 550-552: #onVariantSelected
onVariantSelected ==
  /\ btnDisabled' = IF refs.btn THEN TRUE ELSE btnDisabled
  /\ last' = [op |-> "onVariantSelected"]
  /\ out' = <<>>
  /\ UNCHANGED <<cfgVars, variantId, accelHidden, errHidden, errText, liveText,
                 timeout, timers, nextId, posts, cartVars, qtyMax, errAge,
                 errShown, liveAge>>

VariantSelected ==
  /\ events < MaxEvents
  /\ events' = events + 1
  /\ IF listening
     THEN onVariantSelected
     ELSE Unheard("variant:selected") /\ UNCHANGED serverCart
  /\ selecting' = (listening \/ selecting)
  /\ UNCHANGED <<reported, lifeVars, atcVars>>

\* ------------------------------------------------- ProductForm lifecycle
formState == <<cfgVars, variantId, domVars, timeout, posts, cartVars, qtyMax,
               errAge, errShown, liveAge>>

\* a bug: abort() leaves the listeners attached
AbortIgnored(attached) == attached

\* abort() of the controller whose signal every listener was added with
Abort(attached) == FALSE

\* lines 164-174: connectedCallback; addEventListener does not attach a
\* listener whose signal is already aborted
connectedCallback ==
  /\ listening' = (listening \/ ~aborted)
  /\ UNCHANGED aborted

\* lines 176-180: disconnectedCallback
disconnectedCallback ==
  /\ aborted' = TRUE
  /\ listening' = Abort(listening)

\* the element is inserted into the document again
Connect ==
  /\ ~connected
  /\ events < MaxEvents
  /\ events' = events + 1
  /\ connected' = TRUE
  /\ connectedCallback
  /\ last' = [op |-> "connectedCallback"]
  /\ out' = <<>>
  /\ UNCHANGED <<formState, timers, nextId, trackVars, atcVars>>

\* the element is removed from the document
Disconnect ==
  /\ connected
  /\ events < MaxEvents
  /\ events' = events + 1
  /\ connected' = FALSE
  /\ disconnectedCallback
  /\ last' = [op |-> "disconnectedCallback"]
  /\ out' = <<>>
  /\ UNCHANGED <<formState, timers, nextId, trackVars, atcVars>>

\* ------------------------------------------------------ AddToCartComponent
\* a click: the state of the enclosing form, the quantity in the widget, and
\* what #animateFlyToCart and line 84 look at
ClickEvents == [form : {"none", "invalid", "valid"}, quantity : Quantities,
                animation : BOOLEAN, modal : BOOLEAN, cartIcon : BOOLEAN,
                image : BOOLEAN]

\* a bug: the widget's answer is not looked at
ClickPassesUnvalidated(event, validation) == event.form = "valid"

\* lines 67-78: the form exists and is valid, and the widget, if there is
\* one, lets the quantity be added
ClickPasses(event, validation) ==
  event.form = "valid" /\ (refs.qty => validation.canAdd)

\* a bug: the pending timers are left running
NotCleared(ts) == ts

\* lines 123-124 and 43-44: both timeouts are cleared
ClearBoth(ts) == ClearTimeout(ClearTimeout(ts, animationTimeout), cleanupTimeout)

\* lines 120-135: animateAddToCart
animateAddToCart ==
  /\ atcAdded' = TRUE
  /\ timers' = SetTimeout(ClearBoth(timers), nextId, "animation",
                          ADD_TO_CART_TEXT_ANIMATION_DURATION)
  /\ animationTimeout' = nextId
  /\ nextId' = nextId + 1
  /\ UNCHANGED cleanupTimeout

\* lines 82-86 and 100-115: a fly-to-cart element is appended to the body
Flies(event) ==
  event.animation /\ ~event.modal /\ event.cartIcon /\ event.image

\* lines 66-87: handleClick
handleClick(event) ==
  LET validation == CanAddToCart(event.quantity, qtyMax)
  IN /\ last' = [op |-> "handleClick", form |-> event.form,
                 canAdd |-> validation.canAdd, flies |-> Flies(event)]
     /\ out' = <<>>
     /\ IF ClickPasses(event, validation)
        THEN /\ animateAddToCart
             /\ flyers' = IF Flies(event) THEN flyers + 1 ELSE flyers
             /\ atcAge' = 0
             /\ atcInterrupted' = FALSE
        ELSE UNCHANGED <<atcAdded, timers, animationTimeout, nextId,
                         cleanupTimeout, flyers, atcAge, atcInterrupted>>
     /\ UNCHANGED <<formState, lifeVars, trackVars, atcConnected, fly>>

Click ==
  \E event \in ClickEvents :
    /\ atcConnected
    /\ events < MaxEvents
    /\ events' = events + 1
    /\ handleClick(event)

\* lines 130-134: the callback of #animationTimeout schedules the cleanup
AnimationEnds(t) ==
  /\ cleanupTimeout' = nextId
  /\ timers' = SetTimeout(timers \ {t}, nextId, "cleanup", CLEANUP_DELAY)
  /\ nextId' = nextId + 1
  /\ UNCHANGED atcAdded

\* lines 131-133: the callback of #cleanupTimeout removes the class
CleanupRuns(t) ==
  /\ atcAdded' = FALSE
  /\ timers' = timers \ {t}
  /\ UNCHANGED <<cleanupTimeout, nextId>>

AtcTimerFires ==
  \E t \in Due :
    /\ t.kind \in AtcKinds
    /\ last' = [op |-> "atcTimer", timer |-> t]
    /\ out' = <<>>
    /\ CASE t.kind = "animation" -> AnimationEnds(t)
         [] t.kind = "cleanup" -> CleanupRuns(t)
    /\ UNCHANGED <<formState, lifeVars, trackVars, events, atcConnected,
                   animationTimeout, flyers, atcAge, atcInterrupted, fly>>

\* lines 40-46: disconnectedCallback of the button
AtcDisconnect ==
  /\ atcConnected
  /\ atcConnected' = FALSE
  /\ timers' = ClearBoth(timers)
  /\ atcInterrupted' = TRUE
  /\ last' = [op |-> "atcDisconnectedCallback"]
  /\ out' = <<>>
  /\ UNCHANGED <<formState, lifeVars, trackVars, events, nextId, atcAdded,
                 animationTimeout, cleanupTimeout, flyers, atcAge, fly>>

\* lines 34-38: connectedCallback of the button
AtcConnect ==
  /\ ~atcConnected
  /\ atcConnected' = TRUE
  /\ last' = [op |-> "atcConnectedCallback"]
  /\ out' = <<>>
  /\ UNCHANGED <<formState, lifeVars, trackVars, events, timers, nextId,
                 atcAdded, animationTimeout, cleanupTimeout, flyers, atcAge,
                 atcInterrupted, fly>>

\* ---------------------------------------------------------------- FlyToCart
\* Frame timestamps are multiples of FrameUnit, so that progress is a whole
\* number of Whole-ths; positions are kept multiplied by Whole^3 and the
\* scale by 2 * Whole, which keeps bezierPoint exact.

\* the centres of source and destination, less half the element's size
StartPoints == {[x |-> 300, y |-> 500], [x |-> 40, y |-> 200]}
EndPoints == {[x |-> 900, y |-> 20], [x |-> 40, y |-> 30]}
LaunchTimes == {FrameUnit, 2 * FrameUnit}
Steps == {k * FrameUnit : k \in 0..(Whole + 1)}

\* a bug: the progress is not capped
ProgressUncapped(elapsed) == elapsed \div FrameUnit

\* line 609: Math.min(elapsed / duration, 1), in Whole-ths
Progress(elapsed) ==
  IF elapsed >= DURATION THEN Whole ELSE elapsed \div FrameUnit

\* lines 650-663: bezierPoint, t being n / Whole and the result times Whole^3
bezierPoint(n, p0, p1, p2, p3) ==
  LET cX == 3 * (p1.x - p0.x)
      bX == 3 * (p2.x - p1.x) - cX
      aX == p3.x - p0.x - cX - bX
      cY == 3 * (p1.y - p0.y)
      bY == 3 * (p2.y - p1.y) - cY
      aY == p3.y - p0.y - cY - bY
  IN [x |-> aX * Cube(n) + bX * n * n * Whole + cX * n * Whole * Whole
            + p0.x * Cube(Whole),
      y |-> aY * Cube(n) + bY * n * n * Whole + cY * n * Whole * Whole
            + p0.y * Cube(Whole)]

Scaled(p) == [x |-> p.x * Cube(Whole), y |-> p.y * Cube(Whole)]

\* what no action of the effect touches
notFly == <<formState, lifeVars, trackVars, timers, nextId, events,
            atcConnected, atcAdded, animationTimeout, cleanupTimeout, flyers,
            atcAge, atcInterrupted>>

\* lines 566-568 and 570-637: connectedCallback of the element appended at
\* line 114, that is #animate up to its requestAnimationFrame
Launch ==
  \E p0 \in StartPoints : \E p3 \in EndPoints : \E t \in LaunchTimes :
    /\ fly.phase = "none"
    /\ fly' = [phase |-> "flying", startPoint |-> p0, endPoint |-> p3,
               startTime |-> 0, now |-> t, progress |-> 0,
               position |-> Scaled(p0), scale |-> 2 * Whole, opacity |-> 1]
    /\ last' = [op |-> "animate"]
    /\ out' = <<>>
    /\ UNCHANGED notFly

\* lines 606-630: the frame callback `animate`, called with currentTime
animate(currentTime) ==
  LET startTime == IF fly.startTime = 0 THEN currentTime ELSE fly.startTime
      elapsed == currentTime - startTime
      progress == Progress(elapsed)
      controlPoint1 == [x |-> fly.startPoint.x, y |-> fly.startPoint.y - 200]
      controlPoint2 == [x |-> fly.endPoint.x - 300, y |-> fly.endPoint.y - 100]
      position == bezierPoint(progress, fly.startPoint, controlPoint1,
                              controlPoint2, fly.endPoint)
  IN /\ fly.phase = "flying"
     /\ fly' = [fly EXCEPT !.startTime = startTime, !.now = currentTime,
                           !.progress = progress, !.position = position,
                           !.scale = 2 * Whole - progress,
                           !.opacity = IF progress < Whole THEN 1 ELSE 0,
                           !.phase = IF progress < Whole THEN "flying"
                                     ELSE "fading"]
     /\ last' = [op |-> "frame"]
     /\ out' = <<>>
     /\ UNCHANGED notFly

\* a frame with the timestamp of the frame before
FrameSame == animate(fly.now)

\* a frame with a later timestamp
FrameLater == \E d \in Steps \ {0} : animate(fly.now + d)

\* the animations of the element have ended: the callback given to
\* onAnimationEnd removes it
AnimationEnd ==
  /\ fly.phase = "fading"
  /\ fly' = [fly EXCEPT !.phase = "removed"]
  /\ last' = [op |-> "animationEnd"]
  /\ out' = <<>>
  /\ UNCHANGED notFly

\* ----------------------------------------------------------- specification
\* the whole component on the complete page
Next ==
  \/ Submit \/ CartAddResponse \/ CartAddFailure \/ Wait \/ TimerFires
  \/ CartGetAnswer \/ CartGetResponse \/ CartGetFailure \/ CartUpdate
  \/ VariantUpdate \/ VariantSelected

Spec == Init /\ [][Next]_vars

\* the submit path, second by second, on every page it can run on
NextSubmit == Submit \/ CartAddResponse \/ CartAddFailure \/ Tick \/ TimerFires

SpecSubmit == InitSubmit /\ [][NextSubmit]_vars

\* submissions and variant signals, on every page they can run on
NextVariant ==
  \/ Submit \/ CartAddResponse \/ CartAddFailure \/ Wait \/ TimerFires
  \/ VariantUpdate \/ VariantSelected

SpecVariant == InitVariant /\ [][NextVariant]_vars

\* the add-to-cart button, with and without a quantity widget in its form
InitButton == Start([err : {TRUE}, btn : {TRUE}, accel : {TRUE},
                     qty : BOOLEAN, label : {TRUE}])

NextButton ==
  \/ Click \/ AtcTimerFires \/ Tick \/ Wait \/ AtcDisconnect \/ AtcConnect

SpecButton == InitButton /\ [][NextButton]_vars

\* one fly-to-cart element from its insertion to its removal
NextFly == Launch \/ FrameSame \/ FrameLater \/ AnimationEnd

SpecFly == Init /\ [][NextFly]_vars

\* frames keep coming with later timestamps, and animations end
FairFly == SpecFly /\ WF_vars(FrameLater) /\ WF_vars(AnimationEnd)

\* the cart-add POST on pages with any cart-items components
InitSections == StartOn([err : {TRUE}, btn : {TRUE}, accel : {TRUE},
                         qty : BOOLEAN, label : {TRUE}], Pages)

NextSections == Submit \/ CartAddResponse \/ CartAddFailure

SpecSections == InitSections /\ [][NextSections]_vars

\* the cart refetch and the signals that start it, on the complete page
NextCart ==
  \/ CartUpdate \/ VariantUpdate \/ CartGetAnswer \/ CartGetResponse
  \/ CartGetFailure

SpecCart == Init /\ [][NextCart]_vars

\* the component being removed from and inserted into the document, on a
\* page without the quantity widget and within one instant (no timer fires)
InitLife == Start([err : {TRUE}, btn : {TRUE}, accel : {TRUE},
                   qty : {FALSE}, label : {TRUE}])

NextLife ==
  \/ Connect \/ Disconnect \/ VariantUpdate \/ VariantSelected \/ CartUpdate
  \/ Submit \/ CartAddResponse \/ CartGetAnswer \/ CartGetResponse

SpecLife == InitLife /\ [][NextLife]_vars

\* ------------------------------------------------------------------ claims
Types(signals) == {signals[k].type : k \in 1..Len(signals)}

AddSignals(signals) ==
  {signals[k] : k \in {j \in 1..Len(signals) : signals[j].type = "CartAddEvent"}}

\* the template with every placeholder standing for the maximum
Substituted(template, maximum) ==
  [k \in 1..Len(template) |->
     IF template[k] = Placeholder THEN NumberToString(maximum) ELSE template[k]]

Rejected == last.op = "handleSubmit" /\ last.validated /\ ~last.canAdd

\* C1: a submission whose quantity the widget rejects (canAdd = false) issues
\* no cart-add POST, and the error element is then visible with the
\* quantityErrorMax template in which the placeholder is the reported maximum.
C1_RejectedIsShownNotPosted ==
  Rejected =>
    /\ "POST" \notin Types(out)
    /\ refs.err =>
         /\ ~errHidden
         /\ errText = Substituted(dataset.quantityErrorMax, last.maxQuantity)

C1_Witness ==
  /\ Rejected
  /\ refs.err /\ ~errHidden
  /\ errText = <<"Maximum ", "1", " per order">>
  /\ posts = <<>>

ErrorAnswered == last.op = "cartAddResponse" /\ last.response.status # 0

SuccessAnswered == last.op = "cartAddResponse" /\ last.response.status = 0

\* C2: a response with a truthy status never takes the success path (no
\* 'added' announcement, no cart refetch, no add signal without error flag)
\* and always dispatches a cart-add signal with didError: true whose
\* itemCount is the submitted quantity, or the default when that is missing
\* or zero, whichever optional refs the page has.
C2_ErrorIsAlwaysSignalled ==
  ErrorAnswered =>
    /\ liveText # AddedText
    /\ "GET" \notin Types(out)
    /\ \E signal \in AddSignals(out) : signal.didError
    /\ \A signal \in AddSignals(out) :
         /\ signal.didError
         /\ signal.itemCount =
              (IF last.formData.quantity \in 1..MaxQuantity
               THEN last.formData.quantity ELSE dataset.quantityDefault)

\* C4: right after the handler of a response without a truthy status, the
\* error element is hidden, whatever error was on screen before.
C4_SuccessHidesError == SuccessAnswered => errHidden

C4_Witness == SuccessAnswered /\ refs.err /\ ~last.errHidden /\ errHidden

Unavailable(resource) == ~resource.present \/ ~resource.available

VariantHandled == last.op = "onVariantUpdate" /\ ~last.foreign

\* C5: after a variant-update signal for this product has been handled, the
\* add-to-cart control and the accelerated-checkout control are both disabled
\* when the new variant is absent or unavailable, and both enabled when it is
\* available.
C5_ControlsFollowAvailability ==
  VariantHandled =>
    /\ refs.btn => (btnDisabled <=> Unavailable(last.resource))
    /\ refs.accel => (accelHidden <=> Unavailable(last.resource))

C5_Witness ==
  /\ VariantHandled
  /\ refs.btn /\ refs.accel
  /\ last.btnDisabled /\ ~Unavailable(last.resource)
  /\ ~btnDisabled /\ ~accelHidden

HideTimers == {t \in timers : t.kind = "hide"}

HideFired == last.op = "timer" /\ last.timer.kind = "hide"

\* C3: at most one error-hide timer is pending at any time, and the error
\* on screen is hidden only by the timer that was scheduled when it was
\* shown, under every interleaving of submissions and responses.
C3_OneHideTimer ==
  /\ Cardinality(HideTimers) <= 1
  /\ (HideFired /\ ~last.errHidden) => last.timer.id = last.errShown

ValidationShown == ~errHidden /\ errText \notin Messages

ValidationAnnounced == liveText \notin (Messages \cup {NoText, AddedText})

EnableFired == last.op = "timer" /\ last.timer.kind = "enable"

\* C6: a quantity-rejected submission disables the add-to-cart control at
\* once, the 1-second timer enables it again, and the validation error is
\* off the screen and out of the live region 10 seconds after it was shown.
C6_RejectedIsTransient ==
  /\ Rejected =>
       /\ refs.btn => btnDisabled
       /\ \E t \in timers :
            t.kind = "enable" /\ t.rem = ERROR_BUTTON_REENABLE_DELAY
  /\ EnableFired => (refs.btn => ~btnDisabled)
  /\ ValidationShown => errAge <= ERROR_MESSAGE_DISPLAY_DURATION
  /\ ValidationAnnounced => liveAge <= ERROR_MESSAGE_DISPLAY_DURATION

SignalledOnce ==
  /\ Cardinality({k \in 1..Len(out) : out[k].type = "CartAddEvent"}) = 1
  /\ \A signal \in AddSignals(out) :
       /\ ~signal.didError
       /\ signal.sections = last.response.sections
       /\ signal.itemCount =
            (IF last.formData.quantity \in 1..MaxQuantity
             THEN last.formData.quantity ELSE dataset.quantityDefault)

Announced ==
  /\ liveText = AddedText
  /\ \E t \in timers :
       t.kind = "clear" /\ t.rem = SUCCESS_MESSAGE_DISPLAY_DURATION

AnnouncementExpires ==
  liveText = AddedText => liveAge <= SUCCESS_MESSAGE_DISPLAY_DURATION

C8_ServerErrorShownThenCleared ==
  /\ ErrorAnswered =>
       /\ refs.err => (~errHidden /\ errText = last.response.message)
       /\ liveText = last.response.message
  /\ (~errHidden /\ errText \in Messages) =>
       errAge <= ERROR_MESSAGE_DISPLAY_DURATION
  /\ liveText \in Messages => liveAge <= ERROR_MESSAGE_DISPLAY_DURATION

Idle == timers = {} /\ posts = <<>>

\* the submit path under the scheduling of the event loop: time passes, due
\* timers run, and every fetch promise settles
FairSubmit ==
  /\ SpecSubmit
  /\ WF_vars(Tick)
  /\ WF_vars(TimerFires)
  /\ WF_vars(CartAddResponse \/ CartAddFailure)

\* C9: every submission brings the form back to Idle (its timers fired, its
\* response handled), whichever branch it took; in Idle the submit path has
\* not left the add-to-cart control disabled, and a further submission is
\* processed (it does not take the disabled early return).
C9_ReturnsToIdle ==
  /\ []<>Idle
  /\ [](Idle => ~btnDisabled)
  /\ [][(Idle /\ last'.op = "handleSubmit" /\ events' # events)
          => ~last'.disabled]_vars

C9_Witness == Idle /\ HideFired /\ refs.btn /\ ~btnDisabled /\ events > 1

Settled == posts = <<>> /\ gets = <<>>

\* C10: once every request has been answered, the quantity given to the
\* quantity widget and to the label is the server cart's quantity of the
\* selected variant (0 when the variant is not in the cart).
C10_QuantityConsistent ==
  Settled =>
    /\ refs.qty => cartQty = CartItemQuantity(serverCart, variantId)
    /\ refs.label => labelQty = CartItemQuantity(serverCart, variantId)

\* ---------------------------------------------------- claims: AddToCart
\* the click that has just been handled found no form, an invalid form, or
\* a quantity that the widget does not let be added
RefusedClick ==
  /\ last'.op = "handleClick"
  /\ last'.form # "valid" \/ (refs.qty /\ ~last'.canAdd)

\* C11: AddToCart.handleClick does nothing when the enclosing form is missing
\* or invalid, or when the quantity widget reports canAdd = false: the
\* 'atc-added' class, both timeouts (their ids and the pending timers) and
\* the fly-to-cart elements are as they were before the click.
C11_RefusedClickIsNoOp ==
  [][RefusedClick => UNCHANGED <<atcAdded, animationTimeout, cleanupTimeout,
                                 timers, flyers>>]_vars

\* the widget has refused a click on a valid form while the class of an
\* earlier click was set and its timer pending
C11_Witness ==
  /\ last.op = "handleClick" /\ last.form = "valid"
  /\ refs.qty /\ ~last.canAdd
  /\ atcAdded /\ timers # {} /\ flyers > 0

\* the pending timers of the removal chain of the button
Chain == {t \in timers : t.kind \in AtcKinds}

\* when a pending timer of the chain is due, counted from the last click
DueAt(t) == IF t.kind = "animation" THEN ADD_TO_CART_TEXT_ANIMATION_DURATION
            ELSE ADD_TO_CART_TEXT_ANIMATION_DURATION + CLEANUP_DELAY

\* C12: once the button has been clicked (validly), the 'atc-added' class is
\* there for the whole animation duration after the last click; while the
\* button has stayed connected since that click, the class is there only
\* with its removal chain pending and timed from the last click (so a click
\* during the duration restarts it); and never more than one timer of the
\* chain is pending.
C12_AddedForTheDuration ==
  /\ Cardinality(Chain) <= 1
  /\ (atcAge # NoClick /\ atcAge < ADD_TO_CART_TEXT_ANIMATION_DURATION)
       => atcAdded
  /\ (atcAdded /\ ~atcInterrupted)
       => /\ Chain # {}
          /\ \A t \in Chain : atcAge + t.rem = DueAt(t)
  /\ (atcAge # NoClick /\ ~atcAdded)
       => atcAge >= ADD_TO_CART_TEXT_ANIMATION_DURATION + CLEANUP_DELAY

\* a second click has restarted the chain before the first timer fired
C12_Witness ==
  /\ last.op = "handleClick" /\ atcAge = 0 /\ atcAdded
  /\ animationTimeout = 2 /\ cleanupTimeout = NoTimer
  /\ \E t \in Chain : t.id = 2 /\ t.rem = ADD_TO_CART_TEXT_ANIMATION_DURATION

\* --------------------------------------------------- claims: cart refetch
\* C13: a cart GET that fails (network or JSON parsing) resolves to 0 and
\* changes neither the error element, nor the live region, nor the cart
\* quantity of the widget, nor the quantity label.
C13_GetFailureIsSilent ==
  [][last'.op = "cartGetFailure"
       => /\ last'.result = 0
          /\ UNCHANGED <<errHidden, errText, liveText, cartQty, labelQty,
                         labelHidden>>]_vars

\* a GET has failed while the display showed a quantity
C13_Witness ==
  /\ last.op = "cartGetFailure"
  /\ cartQty > 0 /\ labelQty > 0 /\ ~labelHidden

\* ------------------------------------------------------ claims: lifecycle
SignalOps == {"onVariantUpdate", "onVariantSelected", "onCartUpdate", "unheard"}

\* what the component owns
OwnState == <<dataset, variantId, domVars, timeout, timers, nextId, posts,
              gets, qtyMax, cartQty, labelQty, labelHidden>>

\* C14: while the ProductForm is disconnected, a variant-update,
\* variant-selected or cart-update signal changes nothing of the component,
\* whereas the answer to a cart-add POST or cart GET is still handled: a
\* successful add is announced and signalled, a GET answer is displayed.
C14_DisconnectedHearsNoSignal ==
  [][~connected =>
       /\ last'.op \in SignalOps => UNCHANGED OwnState
       /\ (last'.op = "cartAddResponse" /\ last'.response.status = 0
            /\ last'.formData.id # NoVariant)
           => /\ refs.btn => liveText' = AddedText
              /\ "CartAddEvent" \in Types(out')
       /\ (last'.op = "cartGetResponse" /\ refs.label)
           => labelQty' = CartItemQuantity(last'.items, variantId)]_vars

\* disconnected, with the answers of the POST and of the GET that followed
\* it handled, and a signal then dispatched in vain
C14_Witness ==
  /\ ~connected /\ last.op = "unheard"
  /\ liveText = AddedText /\ labelQty > 0

\* C15: whenever the ProductForm is connected, a signal dispatched to it is
\* handled, in particular after a disconnect followed by a reconnect.
C15_ConnectedHearsSignals ==
  [][connected => last'.op # "unheard"]_vars

\* ------------------------------------------------ claims: variant signals
\* C16: a variant-update handled for this product sets the variant id to the
\* one of the signal and ends with the cart GET for it, whichever optional
\* refs the page has and whether or not the variant is present.
C16_VariantUpdateEndsWithGet ==
  (last.op = "onVariantUpdate" /\ ~last.foreign)
    => /\ variantId = last.resource.id
       /\ out # <<>>
       /\ out[Len(out)].type = "GET"

\* C17: a variant-update without newProduct whose productId is not the
\* component's changes neither the variant id, nor the button, nor the
\* accelerated-checkout container, nor the quantity constraint, nor anything
\* else of the component, and issues no cart GET.
C17_ForeignUpdateChangesNothing ==
  [][(/\ last'.op = "onVariantUpdate"
      /\ last'.newProduct = NoProduct
      /\ last'.productId # dataset.productId)
       => /\ UNCHANGED OwnState
          /\ out' = <<>>]_vars

\* a signal of another product has been handled that, taken for this
\* product, would have changed variant id, button and constraint
C17_Witness ==
  /\ last.op = "onVariantUpdate"
  /\ last.newProduct = NoProduct /\ last.productId # dataset.productId
  /\ last.resource.id # variantId
  /\ refs.btn /\ ~btnDisabled /\ NotAvailable(last.resource)
  /\ refs.accel /\ ~accelHidden
  /\ refs.qty

\* C18: from a handled variant-selected until the next handled
\* variant-update the add-to-cart button is disabled.
C18_DisabledWhileSelecting ==
  (selecting /\ refs.btn) => btnDisabled

\* C19: while the last handled variant-update said that the variant is
\* absent or unavailable, the add-to-cart button is disabled and no
\* handleSubmit sends a POST.
C19_UnavailableStaysDisabled ==
  (reported = "unavailable" /\ refs.btn)
    => /\ btnDisabled
       /\ last.op = "handleSubmit" => "POST" \notin Types(out)

\* C20: whenever the error element is visible, a timer that hides it is
\* pending.
C20_VisibleErrorHasHideTimer ==
  ~errHidden => \E t \in timers : t.kind = "hide"

\* ----------------------------------------------------- claims: live region
\* C21: after every step, a visible error element has its message in the
\* live region, and no step empties a live region that holds the 'added'
\* confirmation before that confirmation is 5 seconds old.
C21_AnnouncementsKeepTheirTime ==
  [][/\ (refs.err /\ ~errHidden') => liveText' = errText'
     /\ (liveText = AddedText /\ liveText' = NoText)
          => liveAge >= SUCCESS_MESSAGE_DISPLAY_DURATION]_vars

\* ---------------------------------------------------- claims: cart-update
\* the cart-update signal that has just been handled came from the component
FromItself ==
  last.event.sourceId = "this" \/ last.event.source = "product-form-component"

WithSectionId(id) == id # NoSectionId

\* C23: the body of every cart-add POST has exactly one `sections` entry,
\* the comma-separated list of the section ids of all cart-items components
\* of the page, for any number of such components.
C23_OneSectionsEntry ==
  \A k \in 1..Len(posts) :
    posts[k].sections = <<Join(SelectSeq(cartItems, WithSectionId))>>

\* ------------------------------------------------------ claims: FlyToCart
\* the flight is over: progress 1, reached at a frame
Arrived == fly.phase # "none" /\ fly.progress = Whole

\* C24: with frames that keep coming at non-decreasing timestamps, the
\* progress of a fly-to-cart element never decreases and never exceeds 1;
\* once it is 1 the element is at the end point with scale 0.5 and no frame
\* is requested any more, and not before; and every element in flight is
\* in the end removed, on the end of its animations.
C24_FlyToCartTerminates ==
  /\ [][fly.phase # "none" => fly'.progress >= fly.progress]_vars
  /\ [](fly.progress <= Whole)
  /\ [](Arrived => /\ fly.position = Scaled(fly.endPoint)
                   /\ 2 * fly.scale = 2 * Whole
                   /\ fly.opacity = 0
                   /\ fly.phase \in {"fading", "removed"})
  /\ [](fly.phase \in {"fading", "removed"} => Arrived)
  /\ (fly.phase = "flying" ~> fly.phase = "removed")

\* an element has been removed after a flight between two different points
\* whose last frame came later than the duration after the first
C24_Witness ==
  /\ fly.phase = "removed" /\ Arrived
  /\ fly.startPoint.x # fly.endPoint.x
  /\ fly.now > fly.startTime + DURATION

====
